---- MODULE Spec2Model ----
(***************************************************************************)
(* Model of auth0-log-extension-tools: the run orchestration of            *)
(* LogsProcessor (src/src/processor.js) and the checkpoint persistence of  *)
(* Auth0Storage (src/src/Auth0Storage.js).                                 *)
(*                                                                         *)
(* Checkpoints are natural numbers: 0 is null (no checkpoint), n > 0 is    *)
(* the id of the n-th record of the log source.  Records are identified    *)
(* by their position in the source.                                        *)
(*                                                                         *)
(* The processor's storage (require('./storage')) is taken to be the       *)
(* Auth0Storage of src/src/Auth0Storage.js, constructed without a limit.   *)
(* The log source stream (require('./stream')) is modelled from its        *)
(* interface: next, done, batchSaved, the data, end and error events and   *)
(* the status, previousCheckpoint and lastCheckpoint fields.  The dates    *)
(* of a status and the staleness warning of runSuccess are left out.       *)
(***************************************************************************)
EXTENDS Integers, Sequences, FiniteSets, TLC

\* ------------------------------------------------------------------ bounds
MaxStart == 1        \* the run starts at a clock value in 1..MaxStart (ms)
PageSmall == 40      \* size of a short page the source may answer with
MaxPages == 4        \* page requests the source answers in one run
MaxDone == 7         \* done() calls issued in the store specification
MaxRace == 3         \* done() calls issued by the two racing callers together
BigErr == 300        \* serialized byte length of a large error value
MaxProbe == 250      \* batch sizes getNextLimit is probed with

\* ------------------------------------------------------- program constants
DefaultBatchSize == 100
DefaultMaxRetries == 5
DefaultMaxRunTimeSeconds == 20
DefaultLimit == 400
PageCap == 100
SpliceCount == 5
KiB == 1024

Callers == {1, 2}

VARIABLES
    userOptions,    \* the options object given to the constructor
    options,        \* this.options of the LogsProcessor
    now,            \* wall clock, new Date().getTime()
    start,          \* run(): const start
    retries,        \* run(): var retries
    logsBatch,      \* run(): var logsBatch
    pc,             \* position of the run
    stream,         \* the LogsApiStream object
    pendingNext,    \* limits of the page requests not answered yet
    handlerPending, \* handler invocations that have not called back yet
    onDone,         \* continuation attached to storage.done by the run
    settled,        \* state of the promise returned by run()
    result,         \* value the promise was settled with
    doc,            \* the document held by the underlying store
    limit,          \* this.limit of the Auth0Storage
    call,           \* per caller: the done() call in progress
    hist            \* history of the run (observations only)

runVars == <<userOptions, options, now, start, retries, logsBatch, pc, stream,
             pendingNext, handlerPending, onDone, settled, result, hist>>
storeVars == <<doc, limit, call>>
vars == <<runVars, storeVars>>

\* ------------------------------------------------------------ error values
Err(kind, size) ==
    [kind |-> kind, from |-> 0, to |-> 0, after |-> 0, cause |-> "none", size |-> size]
NoError == Err("none", 0)
HandlerError == Err("handler", 2)
StreamError == Err("stream", 2)
StoreError == Err("store", 2)
OpenError == Err("open", 2)
TypeError == Err("TypeError", 2)

Digits(n) == IF n < 10 THEN 1 ELSE IF n < 100 THEN 2 ELSE IF n < 1000 THEN 3 ELSE 4

\* the text 'Skipping logs from ' + prev + ' to ' + last + ' after ' + n + ' retries.'
CheckpointText(c) == IF c = 0 THEN 4 ELSE Digits(c)
SkipMessageLen(prev, last, n) ==
    Len("Skipping logs from ") + CheckpointText(prev) + Len(" to ") + CheckpointText(last)
        + Len(" after ") + Digits(n) + Len(" retries.")

SkipError(prev, last, n, err) ==
    [kind |-> "skip", from |-> prev, to |-> last, after |-> n, cause |-> err.kind,
     size |-> 2 + (SkipMessageLen(prev, last, n) + 2) + 1 + err.size]

\* ------------------------------------------------------ JSON.stringify size
CheckpointJsonLen(c) == IF c = 0 THEN Len("null") ELSE Digits(c) + 2

StatusJsonLen(s) ==
    2 + Len("\"logsProcessed\":") + Digits(s.logsProcessed)
      + (IF s.error.kind = "none" THEN 0 ELSE Len(",\"error\":") + s.error.size)
      + (IF s.hasCheckpoint THEN Len(",\"checkpoint\":") + CheckpointJsonLen(s.checkpoint) ELSE 0)

RECURSIVE SumStatusLen(_)
SumStatusLen(logs) ==
    IF logs = <<>> THEN 0 ELSE StatusJsonLen(Head(logs)) + SumStatusLen(Tail(logs))

LogsJsonLen(logs) ==
    2 + SumStatusLen(logs) + (IF Len(logs) > 1 THEN Len(logs) - 1 ELSE 0)

DocJsonLen(d) ==
    2 + (IF d.hasCheckpointId THEN Len("\"checkpointId\":") + CheckpointJsonLen(d.checkpointId) ELSE 0)
      + (IF d.hasCheckpointId /\ d.hasLogs THEN 1 ELSE 0)
      + (IF d.hasLogs THEN Len("\"logs\":") + LogsJsonLen(d.logs) ELSE 0)

\* ---------------------------------------------------------------- documents
Undefined ==
    [defined |-> FALSE, hasCheckpointId |-> FALSE, hasLogs |-> FALSE, checkpointId |-> 0, logs |-> <<>>]
EmptyDoc ==
    [defined |-> TRUE, hasCheckpointId |-> FALSE, hasLogs |-> FALSE, checkpointId |-> 0, logs |-> <<>>]
SeededDoc(c) ==
    [defined |-> TRUE, hasCheckpointId |-> TRUE, hasLogs |-> FALSE, checkpointId |-> c, logs |-> <<>>]

NewStatus ==
    [logsProcessed |-> 0, error |-> NoError, hasCheckpoint |-> FALSE, checkpoint |-> 0]

IdleCall ==
    [pc |-> "idle", status |-> NewStatus, checkpoint |-> 0, read |-> Undefined,
     data |-> Undefined, err |-> NoError]

\* ------------------------------------------------------------ Auth0Storage
Auth0Storage(lim) == IF lim = -1 THEN DefaultLimit ELSE lim

\* Array.prototype.splice(0, n): drops the first n elements, or all of them
Splice(s, n) == IF Len(s) <= n THEN <<>> ELSE SubSeq(s, n + 1, Len(s))

\* variant: the size of the document is not looked at
TrimLogs_IgnoreSize(data, lim) ==
    LET logs == IF data.hasLogs THEN data.logs ELSE <<>>
    IN  IF Len(logs) > 0 THEN Splice(logs, SpliceCount) ELSE logs

TrimLogs(data, lim) ==
    LET storageSize == DocJsonLen(data)
        logs == IF data.hasLogs THEN data.logs ELSE <<>>
    IN  IF storageSize >= lim * KiB /\ Len(logs) > 0
        THEN Splice(logs, SpliceCount)
        ELSE logs

\* the body of the then-callback of done(), for a document that exists
DoneData(data, lim, status, checkpoint) ==
    [defined |-> TRUE, hasCheckpointId |-> TRUE, hasLogs |-> TRUE,
     checkpointId |-> checkpoint,
     logs |-> Append(TrimLogs(data, lim),
                     [status EXCEPT !.hasCheckpoint = TRUE, !.checkpoint = checkpoint])]

\* done(status, checkpoint): issues this.storage.read()
StorageDone(c, status, checkpoint) ==
    call' = [call EXCEPT ![c] = [IdleCall EXCEPT !.pc = "read", !.status = status,
                                                 !.checkpoint = checkpoint]]

\* the read of done() completes: the then-callback runs and issues the write,
\* or throws on an undefined document; a failed read rejects the call
ReadComplete(c) ==
    /\ call[c].pc = "read"
    /\ \/ /\ doc.defined
          /\ call' = [call EXCEPT ![c].pc = "write", ![c].read = doc,
                          ![c].status = [call[c].status EXCEPT !.hasCheckpoint = TRUE,
                                                               !.checkpoint = call[c].checkpoint],
                          ![c].data = DoneData(doc, limit, call[c].status, call[c].checkpoint)]
       \/ /\ ~doc.defined
          /\ call' = [call EXCEPT ![c].pc = "rejected", ![c].err = TypeError]
       \/ call' = [call EXCEPT ![c].pc = "rejected", ![c].err = StoreError]
    /\ UNCHANGED <<doc, limit>>

\* variant: the write applies the update to the document now in the store
WriteComplete_Merge(c) ==
    /\ call[c].pc = "write"
    /\ \/ /\ doc' = DoneData(doc, limit, call[c].status, call[c].checkpoint)
          /\ call' = [call EXCEPT ![c].pc = "resolved"]
       \/ /\ call' = [call EXCEPT ![c].pc = "rejected", ![c].err = StoreError]
          /\ UNCHANGED doc
    /\ UNCHANGED limit

\* the write of done() completes and the call resolves, or the write fails
WriteComplete(c) ==
    /\ call[c].pc = "write"
    /\ \/ /\ doc' = call[c].data
          /\ call' = [call EXCEPT ![c].pc = "resolved"]
       \/ /\ call' = [call EXCEPT ![c].pc = "rejected", ![c].err = StoreError]
          /\ UNCHANGED doc
    /\ UNCHANGED limit

\* ----------------------------------------------------------- LogsProcessor
\* _.assign(target, source): every key of source overrides target's
Assign(target, source) ==
    [k \in (DOMAIN target) \cup (DOMAIN source) |->
        IF k \in DOMAIN source THEN source[k] ELSE target[k]]

EmptyObject == [k \in {} |-> 0]

Defaults ==
    [batchSize |-> DefaultBatchSize, maxRetries |-> DefaultMaxRetries,
     maxRunTimeSeconds |-> DefaultMaxRunTimeSeconds]

\* the constructor: this.options = _.assign({ }, options, { batchSize: 100, ... })
LogsProcessor(opts) == Assign(Assign(EmptyObject, opts), Defaults)

UserOptionSets ==
    { [domain |-> "d"],
      [domain |-> "d", startFrom |-> 3, batchSize |-> 2, maxRetries |-> 1,
       maxRunTimeSeconds |-> 1] }

\* variant: the limit is compared against the start time instead of the clock
hasTimeLeft_FromStart(startAt, clock) ==
    (startAt + options.maxRunTimeSeconds) * 1000 >= startAt

hasTimeLeft(startAt, clock) ==
    (startAt + options.maxRunTimeSeconds) * 1000 >= clock

\* variant: the length of the batch is not subtracted
getNextLimit_NoSubtract(batchSize, batchLength) ==
    IF batchSize > PageCap THEN PageCap ELSE batchSize

getNextLimit(batchSize, batchLength) ==
    LET lim == batchSize - batchLength
    IN  IF lim > PageCap THEN PageCap ELSE lim

\* the filter table of ./logTypes: type name -> entry with a level, in key order
LogTypes ==
    << [name |-> "a", level |-> 1], [name |-> "b", level |-> 2], [name |-> "c", level |-> 3] >>

\* _.filter(collection, predicate) on the values of an object: the array of
\* the values whose level is at least logLevel
RECURSIVE FilterLevel(_, _)
FilterLevel(table, logLevel) ==
    IF table = <<>> THEN <<>>
    ELSE (IF Head(table).level >= logLevel THEN <<Head(table)>> ELSE <<>>)
            \o FilterLevel(Tail(table), logLevel)

\* _.keys(array): the indices of the array, as strings
IndexNames == <<"0", "1", "2">>
Keys(array) == [i \in 1..Len(array) |-> IndexNames[i]]

\* _.uniq(array): the first occurrence of every element, in order
RECURSIVE Uniq(_)
Uniq(array) ==
    IF array = <<>> THEN <<>>
    ELSE LET front == Uniq(SubSeq(array, 1, Len(array) - 1))
             x == array[Len(array)]
         IN  IF \E i \in DOMAIN front : front[i] = x THEN front ELSE Append(front, x)

getLogFilter(opts) ==
    LET types == IF "logTypes" \in DOMAIN opts THEN opts.logTypes ELSE <<>>
    IN  Uniq(IF "logLevel" \in DOMAIN opts /\ opts.logLevel # 0
             THEN types \o Keys(FilterLevel(LogTypes, opts.logLevel))
             ELSE types)

\* a || b on checkpoints (0 is null / undefined)
OrElse(a, b) == IF a # 0 THEN a ELSE b

\* variant: the fallback is preferred to the persisted checkpointId
getCheckpoint_FallbackFirst(data, startFrom) ==
    IF ~data.defined THEN OrElse(startFrom, 0)
    ELSE OrElse(startFrom, OrElse(IF data.hasCheckpointId THEN data.checkpointId ELSE 0, 0))

getCheckpoint(data, startFrom) ==
    IF ~data.defined THEN OrElse(startFrom, 0)
    ELSE OrElse(IF data.hasCheckpointId THEN data.checkpointId ELSE 0, OrElse(startFrom, 0))

StartFrom(opts) == IF "startFrom" \in DOMAIN opts THEN opts.startFrom ELSE 0

\* ---------------------------------------------------- the log source stream
NoStream ==
    [open |-> FALSE, ended |-> FALSE, errored |-> FALSE, doneCalled |-> FALSE, types |-> <<>>,
     previousCheckpoint |-> 0, lastCheckpoint |-> 0, lastBatch |-> 0, status |-> NewStatus]

LogsApiStream(checkpointId, types) ==
    [NoStream EXCEPT !.open = TRUE, !.types = types, !.previousCheckpoint = checkpointId,
                     !.lastCheckpoint = checkpointId]

\* the records of a page of k records read after checkpoint c
Page(c, k) == [i \in 1..k |-> c + i]

\* the source answers a request with a page of k records
StreamPage(s, k) ==
    [s EXCEPT !.lastCheckpoint = @ + k, !.lastBatch = @ + k]

\* stream.batchSaved()
StreamBatchSaved(s) ==
    [s EXCEPT !.status.logsProcessed = @ + s.lastBatch,
              !.previousCheckpoint = s.lastCheckpoint,
              !.lastBatch = 0]

\* stream.done()
StreamDone(s) == [s EXCEPT !.doneCalled = TRUE]

PageSizes(lim) == {k \in {0, PageSmall, lim} : k >= 0 /\ k <= lim}

Times ==
    (1..MaxStart) \cup
    {(s + DefaultMaxRunTimeSeconds) * 1000 + d : s \in 1..MaxStart, d \in {0, 1}} \cup
    {s + DefaultMaxRunTimeSeconds * 1000 + d : s \in 1..MaxStart, d \in {0, 1}}

\* --------------------------------------------------------------- histories
NoHist ==
    [docAtRun |-> Undefined, startCheckpoint |-> 0, yielded |-> <<>>, accepted |-> <<>>, accepts |-> 0,
     invocations |-> 0, deliveries |-> 0, handlerErrors |-> 0, pages |-> 0,
     finalAccepted |-> FALSE, doneLog |-> <<>>, doneCalls |-> 0, lastWriter |-> 0,
     settles |-> 0]

NoContinuation == [kind |-> "none", error |-> NoError, checkpoint |-> 0]
NoResult == [error |-> NoError, status |-> NewStatus, checkpoint |-> 0]

Invoke(h) == [h EXCEPT !.invocations = @ + 1, !.deliveries = @ + 1]

\* ------------------------------------------------------------------- run()
\* variant: logsBatch = logs
AppendLogs_Overwrite(batch, logs) == logs

\* logsBatch = logsBatch.concat(logs)
AppendLogs(batch, logs) == batch \o logs

\* variant: the next page is requested even when the batch is full
DataRequests_NoReturn(batch) ==
    <<getNextLimit(options.batchSize, Len(batch))>>

\* stream.on('data'): the page requests issued once the page is in the batch
DataRequests(batch) ==
    IF Len(batch) < options.batchSize
    THEN <<getNextLimit(options.batchSize, Len(batch))>>
    ELSE <<>>

\* stream.on('data'): the handler invocations issued once the page is in the batch
DataDeliveries(batch) ==
    IF Len(batch) < options.batchSize
    THEN <<>>
    ELSE <<[batch |-> batch, cb |-> "data"]>>

\* variant: status.logsProcessed >= 0
ShouldPersist_Always(status) == status.logsProcessed >= 0

\* runSuccess: if (status.logsProcessed > 0)
ShouldPersist(status) == status.logsProcessed > 0

\* variant: retries <= maxRetries
CanRetry_OffByOne(r) == r <= options.maxRetries

\* retryProcess: if (retries < maxRetries)
CanRetry(r) == r < options.maxRetries

\* variant: the expired branch passes stream.lastCheckpoint
ExpiredFailure_LastCheckpoint(err, s) == [error |-> err, checkpoint |-> s.lastCheckpoint]

\* retryProcess, time budget expired: runFailed(err, stream.status, stream.previousCheckpoint)
ExpiredFailure(err, s) == [error |-> err, checkpoint |-> s.previousCheckpoint]

\* retryProcess, giving up: runFailed(error, stream.status, stream.lastCheckpoint)
GiveUpFailure(err, s) ==
    [error |-> SkipError(s.previousCheckpoint, s.lastCheckpoint, options.maxRetries, err),
     checkpoint |-> s.lastCheckpoint]

\* runFailed(error, status, checkpoint), on stream value s and history h
runFailed(error, s, checkpoint, h) ==
    LET status == [s.status EXCEPT !.error = error]
    IN  /\ stream' = [s EXCEPT !.status = status]
        /\ StorageDone(1, status, checkpoint)
        /\ onDone' = [kind |-> "failed", error |-> error, checkpoint |-> checkpoint]
        /\ pc' = "concluding"
        /\ hist' = [h EXCEPT !.doneLog =
                        Append(@, [status |-> status, checkpoint |-> checkpoint,
                                   previous |-> s.previousCheckpoint,
                                   last |-> s.lastCheckpoint])]
        /\ UNCHANGED <<doc, limit, settled, result>>

\* variant: a run without records returns without resolving
runSuccess_NoResolve(s, checkpoint, h) ==
    IF ShouldPersist(s.status)
    THEN /\ stream' = s
         /\ StorageDone(1, s.status, checkpoint)
         /\ onDone' = [kind |-> "success", error |-> NoError, checkpoint |-> checkpoint]
         /\ pc' = "concluding"
         /\ hist' = [h EXCEPT !.doneLog =
                         Append(@, [status |-> s.status, checkpoint |-> checkpoint,
                                    previous |-> s.previousCheckpoint,
                                    last |-> s.lastCheckpoint])]
         /\ UNCHANGED <<doc, limit, settled, result>>
    ELSE /\ stream' = s
         /\ pc' = "settled"
         /\ hist' = h
         /\ UNCHANGED <<doc, limit, call, onDone, settled, result>>

\* runSuccess(status, checkpoint), on stream value s and history h
runSuccess(s, checkpoint, h) ==
    IF ShouldPersist(s.status)
    THEN /\ stream' = s
         /\ StorageDone(1, s.status, checkpoint)
         /\ onDone' = [kind |-> "success", error |-> NoError, checkpoint |-> checkpoint]
         /\ pc' = "concluding"
         /\ hist' = [h EXCEPT !.doneLog =
                         Append(@, [status |-> s.status, checkpoint |-> checkpoint,
                                    previous |-> s.previousCheckpoint,
                                    last |-> s.lastCheckpoint])]
         /\ UNCHANGED <<doc, limit, settled, result>>
    ELSE /\ stream' = s
         /\ settled' = IF settled = "pending" THEN "resolved" ELSE settled
         /\ result' = IF settled = "pending"
                      THEN [error |-> NoError, status |-> s.status, checkpoint |-> checkpoint]
                      ELSE result
         /\ pc' = "settled"
         /\ hist' = [h EXCEPT !.settles = @ + 1]
         /\ UNCHANGED <<doc, limit, call, onDone>>

\* retryProcess(err, stream, handleError), for the invocation inv that failed
retryProcess(err, inv, h) ==
    IF ~hasTimeLeft(start, now)
    THEN /\ runFailed(ExpiredFailure(err, stream).error, stream,
                      ExpiredFailure(err, stream).checkpoint, h)
         /\ handlerPending' = Tail(handlerPending)
         /\ UNCHANGED <<retries, logsBatch, pendingNext>>
    ELSE IF CanRetry(retries)
    THEN /\ retries' = retries + 1
         /\ handlerPending' = Append(Tail(handlerPending), [batch |-> logsBatch, cb |-> inv.cb])
         /\ hist' = Invoke(h)
         /\ UNCHANGED <<logsBatch, pendingNext, stream, pc, onDone, settled, result,
                        doc, limit, call>>
    ELSE /\ runFailed(GiveUpFailure(err, stream).error, stream,
                      GiveUpFailure(err, stream).checkpoint, h)
         /\ handlerPending' = Tail(handlerPending)
         /\ UNCHANGED <<retries, logsBatch, pendingNext>>

\* run(handler): the promise executor up to the call of createStream, which
\* issues storage.getCheckpoint(options.startFrom), a read of the store
Run ==
    /\ pc = "constructed"
    /\ start' = now
    /\ retries' = 0
    /\ logsBatch' = <<>>
    /\ pc' = "getCheckpoint"
    /\ hist' = [hist EXCEPT !.docAtRun = doc]
    /\ UNCHANGED <<userOptions, options, now, stream, pendingNext, handlerPending,
                   onDone, settled, result, storeVars>>

\* createStream resolves: the stream is opened at the start checkpoint and
\* the first page is requested
CreateStream ==
    /\ pc = "getCheckpoint"
    /\ LET startCheckpoint == getCheckpoint(doc, StartFrom(options))
       IN  /\ stream' = LogsApiStream(startCheckpoint, getLogFilter(options))
           /\ hist' = [hist EXCEPT !.startCheckpoint = startCheckpoint]
    /\ pendingNext' = Append(pendingNext, getNextLimit(options.batchSize, Len(logsBatch)))
    /\ pc' = "streaming"
    /\ UNCHANGED <<userOptions, options, now, start, retries, logsBatch, handlerPending,
                   onDone, settled, result, storeVars>>

\* createStream rejects (the read of the store fails, or the stream cannot be
\* opened): .catch(reject)
CreateStreamFailed ==
    /\ pc = "getCheckpoint"
    /\ \E err \in {StoreError, OpenError} :
          /\ settled' = IF settled = "pending" THEN "rejected" ELSE settled
          /\ result' = IF settled = "pending" THEN [NoResult EXCEPT !.error = err] ELSE result
    /\ pc' = "settled"
    /\ hist' = [hist EXCEPT !.settles = @ + 1]
    /\ UNCHANGED <<userOptions, options, now, start, retries, logsBatch, stream,
                   pendingNext, handlerPending, onDone, storeVars>>

\* stream.on('data'): the source answers the oldest page request with k records
OnData(k) ==
    /\ stream.open /\ ~stream.ended /\ ~stream.errored
    /\ pendingNext # <<>>
    /\ hist.pages < MaxPages
    /\ k \in PageSizes(Head(pendingNext))
    /\ LET logs == Page(stream.lastCheckpoint, k)
           batch == AppendLogs(logsBatch, logs)
           h == [hist EXCEPT !.yielded = @ \o logs, !.pages = @ + 1]
       IN  /\ stream' = StreamPage(stream, k)
           /\ logsBatch' = batch
           /\ pendingNext' = Tail(pendingNext) \o DataRequests(batch)
           /\ handlerPending' = handlerPending \o DataDeliveries(batch)
           /\ hist' = [h EXCEPT !.invocations = @ + Len(DataDeliveries(batch)),
                                !.deliveries = @ + Len(DataDeliveries(batch))]
    /\ UNCHANGED <<userOptions, options, now, start, retries, pc, onDone, settled, result,
                   storeVars>>

\* stream.on('end'): the source has no more pages, or stream.done() was called
OnEnd ==
    /\ stream.open /\ ~stream.ended /\ ~stream.errored
    /\ \/ /\ pendingNext # <<>>
          /\ pendingNext' = Tail(pendingNext)
       \/ /\ stream.doneCalled
          /\ UNCHANGED pendingNext
    /\ stream' = [stream EXCEPT !.ended = TRUE]
    /\ handlerPending' = Append(handlerPending, [batch |-> logsBatch, cb |-> "end"])
    /\ hist' = Invoke(hist)
    /\ UNCHANGED <<userOptions, options, now, start, retries, logsBatch, pc, onDone,
                   settled, result, storeVars>>

\* variant: the error handler rejects the run without concluding it
OnError_NoDone ==
    /\ stream.open /\ ~stream.ended /\ ~stream.errored
    /\ pendingNext # <<>>
    /\ pendingNext' = Tail(pendingNext)
    /\ stream' = [stream EXCEPT !.errored = TRUE]
    /\ settled' = IF settled = "pending" THEN "rejected" ELSE settled
    /\ result' = IF settled = "pending" THEN [NoResult EXCEPT !.error = StreamError] ELSE result
    /\ pc' = "settled"
    /\ hist' = [hist EXCEPT !.settles = @ + 1]
    /\ UNCHANGED <<userOptions, options, now, start, retries, logsBatch, handlerPending,
                   onDone, storeVars>>

\* stream.on('error'): the source fails the oldest page request
OnError ==
    /\ stream.open /\ ~stream.ended /\ ~stream.errored
    /\ pendingNext # <<>>
    /\ pendingNext' = Tail(pendingNext)
    /\ runFailed(StreamError, [stream EXCEPT !.errored = TRUE], stream.previousCheckpoint, hist)
    /\ UNCHANGED <<userOptions, options, now, start, retries, logsBatch, handlerPending>>

\* the handler calls complete(err) for its oldest outstanding invocation:
\* processComplete of stream.on('data') or of stream.on('end')
HandlerError_ ==
    /\ handlerPending # <<>>
    /\ retryProcess(HandlerError, Head(handlerPending),
                    [hist EXCEPT !.handlerErrors = @ + 1])
    /\ UNCHANGED <<userOptions, options, now, start>>

\* variant: the next page is requested without looking at the time budget
DataAccepted_NoBudgetCheck ==
    /\ handlerPending # <<>>
    /\ Head(handlerPending).cb = "data"
    /\ handlerPending' = Tail(handlerPending)
    /\ logsBatch' = <<>>
    /\ hist' = [hist EXCEPT !.accepted = @ \o Head(handlerPending).batch,
                            !.accepts = @ + 1, !.deliveries = 0]
    /\ stream' = StreamBatchSaved(stream)
    /\ pendingNext' = Append(pendingNext, getNextLimit(options.batchSize, 0))
    /\ UNCHANGED <<userOptions, options, now, start, retries, pc, onDone, settled, result,
                   storeVars>>

\* variant: the retry counter starts again at 0 for the next batch
DataAccepted_ResetRetries ==
    /\ handlerPending # <<>>
    /\ Head(handlerPending).cb = "data"
    /\ handlerPending' = Tail(handlerPending)
    /\ logsBatch' = <<>>
    /\ retries' = 0
    /\ hist' = [hist EXCEPT !.accepted = @ \o Head(handlerPending).batch,
                            !.accepts = @ + 1, !.deliveries = 0]
    /\ IF ~hasTimeLeft(start, now)
       THEN /\ stream' = StreamDone(stream)
            /\ UNCHANGED pendingNext
       ELSE /\ stream' = StreamBatchSaved(stream)
            /\ pendingNext' = Append(pendingNext, getNextLimit(options.batchSize, 0))
    /\ UNCHANGED <<userOptions, options, now, start, pc, onDone, settled, result,
                   storeVars>>

\* the handler calls complete() for a batch delivered by stream.on('data')
DataAccepted ==
    /\ handlerPending # <<>>
    /\ Head(handlerPending).cb = "data"
    /\ handlerPending' = Tail(handlerPending)
    /\ logsBatch' = <<>>
    /\ hist' = [hist EXCEPT !.accepted = @ \o Head(handlerPending).batch,
                            !.accepts = @ + 1, !.deliveries = 0]
    /\ IF ~hasTimeLeft(start, now)
       THEN /\ stream' = StreamDone(stream)
            /\ UNCHANGED pendingNext
       ELSE /\ stream' = StreamBatchSaved(stream)
            /\ pendingNext' = Append(pendingNext, getNextLimit(options.batchSize, 0))
    /\ UNCHANGED <<userOptions, options, now, start, retries, pc, onDone, settled, result,
                   storeVars>>

\* the handler calls complete() for the batch delivered by stream.on('end')
EndAccepted ==
    /\ handlerPending # <<>>
    /\ Head(handlerPending).cb = "end"
    /\ handlerPending' = Tail(handlerPending)
    /\ runSuccess(StreamBatchSaved(stream), stream.lastCheckpoint,
                  [hist EXCEPT !.accepted = @ \o Head(handlerPending).batch,
                               !.accepts = @ + 1, !.deliveries = 0,
                               !.finalAccepted = TRUE])
    /\ UNCHANGED <<userOptions, options, now, start, retries, logsBatch, pendingNext>>

\* variant: a failed run rejects with its own error also when done fails
RunConcluded_OwnError ==
    /\ pc = "concluding"
    /\ call[1].pc \in {"resolved", "rejected"}
    /\ LET value ==
             IF onDone.kind = "failed" THEN [NoResult EXCEPT !.error = onDone.error]
             ELSE IF call[1].pc = "rejected" THEN [NoResult EXCEPT !.error = call[1].err]
             ELSE [error |-> NoError, status |-> call[1].status,
                   checkpoint |-> onDone.checkpoint]
           how ==
             IF call[1].pc = "rejected" \/ onDone.kind = "failed" THEN "rejected"
             ELSE "resolved"
       IN  /\ settled' = IF settled = "pending" THEN how ELSE settled
           /\ result' = IF settled = "pending" THEN value ELSE result
    /\ pc' = "settled"
    /\ hist' = [hist EXCEPT !.settles = @ + 1]
    /\ UNCHANGED <<userOptions, options, now, start, retries, logsBatch, stream,
                   pendingNext, handlerPending, onDone, storeVars>>

\* the promise of storage.done settles and the continuation of runFailed or
\* runSuccess settles the run
RunConcluded ==
    /\ pc = "concluding"
    /\ call[1].pc \in {"resolved", "rejected"}
    /\ LET value ==
             IF call[1].pc = "rejected" THEN [NoResult EXCEPT !.error = call[1].err]
             ELSE IF onDone.kind = "failed" THEN [NoResult EXCEPT !.error = onDone.error]
             ELSE [error |-> NoError, status |-> call[1].status,
                   checkpoint |-> onDone.checkpoint]
           how ==
             IF call[1].pc = "rejected" \/ onDone.kind = "failed" THEN "rejected"
             ELSE "resolved"
       IN  /\ settled' = IF settled = "pending" THEN how ELSE settled
           /\ result' = IF settled = "pending" THEN value ELSE result
    /\ pc' = "settled"
    /\ hist' = [hist EXCEPT !.settles = @ + 1]
    /\ UNCHANGED <<userOptions, options, now, start, retries, logsBatch, stream,
                   pendingNext, handlerPending, onDone, storeVars>>

\* the wall clock advances
Tick ==
    /\ pc \in {"getCheckpoint", "streaming"}
    /\ \E t \in Times : t > now /\ now' = t
    /\ UNCHANGED <<userOptions, options, start, retries, logsBatch, pc, stream,
                   pendingNext, handlerPending, onDone, settled, result, hist, storeVars>>

Init ==
    /\ userOptions \in UserOptionSets
    /\ options = LogsProcessor(userOptions)
    /\ now \in 1..MaxStart
    /\ start = 0
    /\ retries = 0
    /\ logsBatch = <<>>
    /\ pc = "constructed"
    /\ stream = NoStream
    /\ pendingNext = <<>>
    /\ handlerPending = <<>>
    /\ onDone = NoContinuation
    /\ settled = "pending"
    /\ result = NoResult
    /\ hist = NoHist
    /\ doc \in {Undefined, EmptyDoc, SeededDoc(2)}
    /\ limit = Auth0Storage(-1)
    /\ call = [c \in Callers |-> IdleCall]

Next ==
    \/ Run
    \/ CreateStream
    \/ CreateStreamFailed
    \/ \E k \in 0..PageCap : OnData(k)
    \/ OnEnd
    \/ OnError
    \/ HandlerError_
    \/ DataAccepted
    \/ EndAccepted
    \/ (ReadComplete(1) /\ UNCHANGED runVars)
    \/ (WriteComplete(1) /\ UNCHANGED runVars)
    \/ RunConcluded
    \/ Tick

Spec == Init /\ [][Next]_vars

\* ------------------------------------------------------------- scheduling
\* The source answers every page request and a called stream.done() with
\* one event, the handler calls complete for every invocation, and the
\* reads and writes of the store complete.
SourceAnswers == (\E k \in 0..PageCap : OnData(k)) \/ OnEnd \/ OnError
HandlerCompletes == HandlerError_ \/ DataAccepted \/ EndAccepted
StoreCompletes == (ReadComplete(1) \/ WriteComplete(1)) /\ UNCHANGED runVars
Opens == CreateStream \/ CreateStreamFailed

Fairness ==
    /\ WF_vars(Run)
    /\ WF_vars(Opens)
    /\ WF_vars(SourceAnswers)
    /\ WF_vars(HandlerCompletes)
    /\ WF_vars(StoreCompletes)
    /\ WF_vars(RunConcluded)

\* runs of a processor constructed with plain options on a store that holds
\* no document or an empty one
LiveInit ==
    /\ Init
    /\ userOptions = [domain |-> "d"]
    /\ doc \in {Undefined, EmptyDoc}

LiveSpec == LiveInit /\ [][Next]_vars /\ Fairness

\* ------------------------------------------- the log filter on its own
\* A processor is constructed with logTypes and logLevel options and opens
\* its stream.
TypeNames == {"a", "b", "c"}
MaxTypes == 2
TypeLists == UNION {[1..n -> TypeNames] : n \in 0..MaxTypes}
LogLevels == 1..4

FilterOptionSets ==
    {[domain |-> "d"]}
    \cup {[domain |-> "d", logTypes |-> t] : t \in TypeLists}
    \cup {[domain |-> "d", logLevel |-> l] : l \in LogLevels}
    \cup {[domain |-> "d", logTypes |-> t, logLevel |-> l] : t \in TypeLists, l \in LogLevels}

FilterInit ==
    /\ userOptions \in FilterOptionSets
    /\ options = LogsProcessor(userOptions)
    /\ now = 1
    /\ start = 0
    /\ retries = 0
    /\ logsBatch = <<>>
    /\ pc = "constructed"
    /\ stream = NoStream
    /\ pendingNext = <<>>
    /\ handlerPending = <<>>
    /\ onDone = NoContinuation
    /\ settled = "pending"
    /\ result = NoResult
    /\ hist = NoHist
    /\ doc = EmptyDoc
    /\ limit = Auth0Storage(-1)
    /\ call = [c \in Callers |-> IdleCall]

FilterNext ==
    \/ Run
    \/ CreateStream
    \/ CreateStreamFailed

FilterSpec == FilterInit /\ [][FilterNext]_vars

\* ------------------------------------------------ the store on its own
\* A caller issues done() calls one after the other on one document.
StoreInputs ==
    { [status |-> [NewStatus EXCEPT !.logsProcessed = 1], checkpoint |-> 1],
      [status |-> [NewStatus EXCEPT !.error = Err("handler", BigErr)], checkpoint |-> 2] }
StoreLimits == {Auth0Storage(-1), Auth0Storage(1)}

StoreDoneCall(c) ==
    /\ call[c].pc \in {"idle", "resolved", "rejected"}
    /\ hist.doneCalls < MaxDone
    /\ \E in \in StoreInputs : StorageDone(c, in.status, in.checkpoint)
    /\ hist' = [hist EXCEPT !.doneCalls = @ + 1]
    /\ UNCHANGED <<userOptions, options, now, start, retries, logsBatch, pc, stream,
                   pendingNext, handlerPending, onDone, settled, result, doc, limit>>

StoreInit ==
    /\ userOptions = [domain |-> "d"]
    /\ options = LogsProcessor(userOptions)
    /\ now = 0
    /\ start = 0
    /\ retries = 0
    /\ logsBatch = <<>>
    /\ pc = "constructed"
    /\ stream = NoStream
    /\ pendingNext = <<>>
    /\ handlerPending = <<>>
    /\ onDone = NoContinuation
    /\ settled = "pending"
    /\ result = NoResult
    /\ hist = NoHist
    /\ doc \in {Undefined, EmptyDoc, SeededDoc(2)}
    /\ limit \in StoreLimits
    /\ call = [c \in Callers |-> IdleCall]

StoreNext ==
    \/ StoreDoneCall(1)
    \/ (ReadComplete(1) /\ UNCHANGED runVars)
    \/ (WriteComplete(1) /\ UNCHANGED runVars)

StoreSpec == StoreInit /\ [][StoreNext]_vars

\* ------------------------------------------------ two callers of done()
\* Two runs conclude on the same document: their done() calls interleave.
RaceDoneCall(c) ==
    /\ call[c].pc \in {"idle", "resolved", "rejected"}
    /\ hist.doneCalls < MaxRace
    /\ \E in \in StoreInputs : StorageDone(c, in.status, in.checkpoint)
    /\ hist' = [hist EXCEPT !.doneCalls = @ + 1]
    /\ UNCHANGED <<userOptions, options, now, start, retries, logsBatch, pc, stream,
                   pendingNext, handlerPending, onDone, settled, result, doc, limit>>

RaceRead(c) == ReadComplete(c) /\ UNCHANGED runVars

RaceWrite(c) ==
    /\ WriteComplete(c)
    /\ hist' = [hist EXCEPT !.lastWriter = IF call'[c].pc = "resolved" THEN c ELSE @]
    /\ UNCHANGED <<userOptions, options, now, start, retries, logsBatch, pc, stream,
                   pendingNext, handlerPending, onDone, settled, result>>

RaceInit ==
    /\ StoreInit
    /\ limit = Auth0Storage(-1)

RaceNext == \E c \in Callers : RaceDoneCall(c) \/ RaceRead(c) \/ RaceWrite(c)

RaceSpec == RaceInit /\ [][RaceNext]_vars

\* -------------------------------------------------------------- properties
Last(s) == s[Len(s)]
Min(a, b) == IF a < b THEN a ELSE b
LogsOf(d) == IF d.hasLogs THEN d.logs ELSE <<>>
Stamped(status, checkpoint) ==
    [status EXCEPT !.hasCheckpoint = TRUE, !.checkpoint = checkpoint]
MustTrim(d) == DocJsonLen(d) >= limit * KiB /\ Len(LogsOf(d)) > 0

\* C9 (as stated): whenever the document read is at or above the limit and
\* logs is non-empty, done() removes exactly five entries before appending.
C9_ExactlyFiveRemoved ==
    \A c \in Callers :
        (call[c].pc = "write" /\ MustTrim(call[c].read)) =>
            Len(call[c].data.logs) = Len(LogsOf(call[c].read)) - SpliceCount + 1

\* C9 (amended): done() on an existing document removes the five oldest
\* entries of logs, or all of them when there are fewer than five, exactly
\* when the serialized size of the document read is at or above limit * 1024
\* and logs is non-empty, and removes nothing otherwise; it then appends
\* status with status.checkpoint = checkpoint as the newest entry, sets
\* checkpointId = checkpoint, and the write stores that document.
C9_DoneTrimsAndAppends ==
    \A c \in Callers :
        /\ call[c].pc \in {"write", "resolved"} =>
              LET old == LogsOf(call[c].read)
                  removed == IF MustTrim(call[c].read) THEN Min(SpliceCount, Len(old)) ELSE 0
                  kept == [i \in 1..(Len(old) - removed) |-> old[i + removed]]
              IN  /\ call[c].data.logs = kept \o <<Stamped(call[c].status, call[c].checkpoint)>>
                  /\ call[c].data.checkpointId = call[c].checkpoint
                  /\ call[c].data.hasCheckpointId /\ call[c].data.hasLogs
                  /\ call[c].status.hasCheckpoint
                  /\ call[c].status.checkpoint = call[c].checkpoint
        /\ call[c].pc = "resolved" => doc = call[c].data

\* a done() call that trimmed five entries of a longer history has completed
C9_Witness ==
    /\ call[1].pc = "resolved"
    /\ MustTrim(call[1].read)
    /\ Len(LogsOf(call[1].read)) > SpliceCount
    /\ Len(doc.logs) = Len(LogsOf(call[1].read)) - SpliceCount + 1

\* C10: the serialized byte size of the persisted logs history never exceeds
\* the configured limit of limit * 1024 bytes.
C10_LogsWithinLimit ==
    doc.hasLogs => LogsJsonLen(doc.logs) <= limit * KiB

\* ------------------------------------------------------ properties of run()
\* the checkpoint reached by the last batch the handler accepted
AcceptedCheckpoint ==
    IF hist.accepted = <<>> THEN hist.startCheckpoint ELSE Last(hist.accepted)

FailedConclusions ==
    {i \in DOMAIN hist.doneLog : hist.doneLog[i].status.error.kind # "none"}

Expired == (start + options.maxRunTimeSeconds) * 1000 < now

\* C1 (as stated): whenever run() fails, the checkpoint passed to done is the
\* stream's previousCheckpoint, and it is never beyond the last batch the
\* handler accepted.
C1_FailurePersistsPrevious ==
    \A i \in FailedConclusions :
        /\ hist.doneLog[i].checkpoint = hist.doneLog[i].previous
        /\ hist.doneLog[i].checkpoint <= AcceptedCheckpoint

\* C1 (amended): on a stream error and on a handler error after the time
\* budget has expired, the checkpoint passed to done is the stream's
\* previousCheckpoint, which is never beyond the last batch the handler
\* accepted; when retries are exhausted it is the stream's lastCheckpoint,
\* the position reached by the batch the handler did not accept.
C1_FailureCheckpoint ==
    \A i \in FailedConclusions :
        LET e == hist.doneLog[i]
        IN  /\ e.status.error.kind \in {"stream", "handler", "skip"}
            /\ e.status.error.kind \in {"stream", "handler"} =>
                  /\ e.checkpoint = e.previous
                  /\ e.checkpoint <= AcceptedCheckpoint
            /\ e.status.error.kind = "skip" =>
                  /\ e.checkpoint = e.last
                  /\ e.last = e.previous + Len(logsBatch)
                  /\ e.previous <= AcceptedCheckpoint

\* a run fails on an expired budget while records of an unaccepted batch lie
\* beyond previousCheckpoint
C1_Witness ==
    \E i \in FailedConclusions :
        /\ hist.doneLog[i].status.error.kind = "handler"
        /\ hist.doneLog[i].last > hist.doneLog[i].previous
        /\ hist.doneLog[i].checkpoint = hist.doneLog[i].previous
        /\ hist.accepts > 0

\* C2: while every handler invocation has reported an error and the time
\* budget has not expired, the batch is redelivered after each of the first
\* maxRetries errors, and the error after that concludes the run with a
\* skip-range error naming previousCheckpoint and lastCheckpoint and carrying
\* the handler error: maxRetries + 1 deliveries in all.
C2_AlwaysFailingExhausts ==
    (hist.accepts = 0 /\ hist.handlerErrors > 0 /\ ~Expired) =>
        /\ hist.handlerErrors <= options.maxRetries + 1
        /\ hist.handlerErrors <= options.maxRetries =>
              /\ retries = hist.handlerErrors
              /\ hist.invocations = hist.handlerErrors + 1
              /\ hist.doneLog = <<>>
              /\ Len(handlerPending) = 1
              /\ handlerPending[1].batch = logsBatch
        /\ hist.handlerErrors = options.maxRetries + 1 =>
              /\ retries = options.maxRetries
              /\ hist.invocations = options.maxRetries + 1
              /\ handlerPending = <<>>
              /\ Len(hist.doneLog) = 1
              /\ LET e == hist.doneLog[1]
                 IN  /\ e.status.error.kind = "skip"
                     /\ e.status.error.from = stream.previousCheckpoint
                     /\ e.status.error.to = stream.lastCheckpoint
                     /\ e.status.error.after = options.maxRetries
                     /\ e.status.error.cause = HandlerError.kind
                     /\ onDone.kind = "failed"
                     /\ onDone.error = e.status.error

\* retries are exhausted on a non-empty batch in a run whose handler always fails
C2_Witness ==
    /\ hist.accepts = 0 /\ ~Expired
    /\ hist.handlerErrors = options.maxRetries + 1
    /\ hist.doneLog # <<>>
    /\ hist.doneLog[1].status.error.kind = "skip"
    /\ hist.doneLog[1].status.error.to > hist.doneLog[1].status.error.from

\* C3: a handler error reported after the time budget has expired concludes
\* the run as failed with that error at previousCheckpoint in the same step:
\* the retry counter is not incremented, the handler is not invoked, and it
\* is never invoked once the run is concluding.
C3_ExpiredFailsImmediately ==
    [][ /\ (hist'.handlerErrors = hist.handlerErrors + 1 /\ Expired) =>
              /\ retries' = retries
              /\ hist'.invocations = hist.invocations
              /\ handlerPending' = <<>>
              /\ pc' = "concluding"
              /\ Len(hist'.doneLog) = Len(hist.doneLog) + 1
              /\ Last(hist'.doneLog).checkpoint = stream.previousCheckpoint
              /\ Last(hist'.doneLog).status.error = HandlerError
              /\ onDone'.kind = "failed"
              /\ onDone'.error = HandlerError
        /\ pc \in {"concluding", "settled"} => hist'.invocations = hist.invocations
      ]_vars

\* the budget expired and a handler error ended the run with retries to spare
C3_Witness ==
    /\ Expired
    /\ retries < options.maxRetries
    /\ hist.handlerErrors > 0
    /\ pc = "concluding"
    /\ onDone.error = HandlerError
    /\ handlerPending = <<>>

\* C4: when run() has resolved, the stream has ended, the handler has accepted
\* the batch delivered at stream end, and the accepted batches, concatenated,
\* are the records the source yielded, in source order.
C4_ResolvedDeliversAll ==
    settled = "resolved" =>
        /\ stream.ended
        /\ hist.finalAccepted
        /\ hist.accepted = hist.yielded
        /\ \A i \in DOMAIN hist.accepted : hist.accepted[i] = hist.startCheckpoint + i

\* a resolved run of several pages and batches, one of them redelivered
C4_Witness ==
    /\ settled = "resolved"
    /\ hist.accepts >= 3
    /\ retries > 0
    /\ Len(hist.accepted) > DefaultBatchSize + PageSmall

\* C5: once the handler has accepted the batch delivered at stream end with
\* status.logsProcessed = 0, the run is resolved, and a run resolved with
\* status.logsProcessed = 0 has not called done: the document in the store
\* is the one the run started with.
C5_ZeroRecordsNoPersist ==
    /\ (hist.finalAccepted /\ stream.status.logsProcessed = 0) => settled = "resolved"
    /\ (settled = "resolved" /\ result.status.logsProcessed = 0) =>
          /\ hist.doneLog = <<>>
          /\ call[1] = IdleCall
          /\ doc = hist.docAtRun

\* the stream ended with no record and the handler accepted the empty batch
C5_Witness ==
    /\ settled = "resolved"
    /\ result.status.logsProcessed = 0
    /\ hist.finalAccepted
    /\ hist.accepted = <<>>

\* C6 (as stated): every rejected run has invoked done before rejecting.
C6_RejectionAfterDone ==
    settled = "rejected" => hist.doneLog # <<>>

\* C6 (amended): every failure of run() after the stream has been opened
\* (stream error, expired budget on a handler error, retries exhausted,
\* failed persistence) invokes done with the status and a checkpoint, and
\* that call completes before the run rejects; a failure to resolve the
\* starting checkpoint or to open the stream rejects without invoking done.
C6_RejectionAfterDoneOnceOpen ==
    settled = "rejected" =>
        IF stream.open
        THEN /\ Len(hist.doneLog) = 1
             /\ call[1].pc \in {"resolved", "rejected"}
             /\ call[1].checkpoint = hist.doneLog[1].checkpoint
             /\ call[1].pc = "resolved" => result.error = hist.doneLog[1].status.error
        ELSE hist.doneLog = <<>> /\ call[1] = IdleCall

\* a stream error was persisted and then rejected the run
C6_Witness ==
    /\ settled = "rejected"
    /\ result.error = StreamError
    /\ call[1].pc = "resolved"
    /\ doc.logs # <<>>
    /\ Last(doc.logs).error = StreamError

ProbeSizes == {0, 1, 2, PageCap - 1, PageCap, PageCap + 1, MaxProbe}

\* C7: every limit passed to stream.next is at most 100 and at most
\* batchSize minus the length of the accumulating batch, and getNextLimit
\* keeps both bounds for other batch sizes too.
C7_NextLimitBounded ==
    /\ \A i \in DOMAIN pendingNext :
          /\ pendingNext[i] <= PageCap
          /\ pendingNext[i] <= options.batchSize - Len(logsBatch)
    /\ \A b \in ProbeSizes : \A n \in {m \in ProbeSizes : m <= b} :
          /\ getNextLimit(b, n) <= PageCap
          /\ getNextLimit(b, n) <= b - n

\* a page is requested for the room left in a partly filled batch
C7_Witness ==
    /\ pendingNext # <<>>
    /\ Len(logsBatch) > 0
    /\ Head(pendingNext) = options.batchSize - Len(logsBatch)
    /\ Head(pendingNext) < PageCap

\* C8: at most one page request or handler invocation is outstanding.
C8_OneOutstanding ==
    Len(pendingNext) + Len(handlerPending) <= 1

\* a redelivered batch is outstanding after earlier batches were accepted
C8_Witness ==
    /\ Len(handlerPending) = 1
    /\ pendingNext = <<>>
    /\ retries > 0
    /\ hist.accepts > 0

\* C11: getCheckpoint(fallback) yields the persisted checkpointId if the
\* document has one, otherwise the fallback if one was given, otherwise null
\* (0), also when the store holds no document; the stored document is left
\* as it was.
C11_GetCheckpointPriority ==
    stream.open =>
        /\ hist.startCheckpoint =
              IF hist.docAtRun.defined /\ hist.docAtRun.hasCheckpointId
                    /\ hist.docAtRun.checkpointId # 0
              THEN hist.docAtRun.checkpointId
              ELSE IF "startFrom" \in DOMAIN userOptions /\ userOptions.startFrom # 0
              THEN userOptions.startFrom
              ELSE 0
        /\ stream.previousCheckpoint >= hist.startCheckpoint
        /\ (pc = "streaming" => doc = hist.docAtRun)

\* the store holds no document and the stream is opened at the fallback
C11_Witness ==
    /\ stream.open
    /\ pc = "streaming"
    /\ ~doc.defined
    /\ "startFrom" \in DOMAIN userOptions
    /\ hist.startCheckpoint = userOptions.startFrom
    /\ stream.lastCheckpoint = userOptions.startFrom

\* C12: batchSize, maxRetries and maxRunTimeSeconds supplied by the caller
\* are the values run() works with; 100, 5 and 20 apply only to an option
\* the caller left out.
C12_SuppliedOptionsUsed ==
    pc # "constructed" =>
        \A k \in {"batchSize", "maxRetries", "maxRunTimeSeconds"} :
            /\ k \in DOMAIN userOptions => options[k] = userOptions[k]
            /\ k \notin DOMAIN userOptions => options[k] = Defaults[k]

Range(s) == {s[i] : i \in DOMAIN s}

\* C13: the types the stream is opened with are, without duplicates, the
\* explicit logTypes together with the names of the filter-table entries
\* whose level is at least logLevel.
C13_FilterIsUnion ==
    stream.open =>
        /\ Range(stream.types) =
              (IF "logTypes" \in DOMAIN userOptions THEN Range(userOptions.logTypes) ELSE {})
              \cup
              (IF "logLevel" \in DOMAIN userOptions
               THEN {LogTypes[i].name : i \in {j \in DOMAIN LogTypes :
                                                LogTypes[j].level >= userOptions.logLevel}}
               ELSE {})
        /\ Cardinality(Range(stream.types)) = Len(stream.types)

\* C14: the retry counter belongs to the run: it is 0 until the first retry,
\* a step either leaves it alone or adds one, an accepted batch does not
\* reset it, and it never exceeds maxRetries.  The handler is invoked again
\* for a failed batch only in a step that adds one to the counter, so there
\* are at most maxRetries redeliveries in a run, and a handler error met
\* with the counter at maxRetries concludes the run.
C14_RetryCounterPerRun ==
    [][ /\ retries' \in {retries, retries + 1}
        /\ retries' <= options.maxRetries
        /\ pc = "constructed" => retries = 0
        /\ hist'.accepts > hist.accepts => retries' = retries
        /\ hist'.handlerErrors = hist.handlerErrors =>
              /\ retries' = retries
              /\ hist'.invocations > hist.invocations =>
                    hist'.deliveries = hist.deliveries + 1 /\ hist.deliveries = 0
        /\ hist'.handlerErrors > hist.handlerErrors =>
              /\ hist'.invocations - hist.invocations = retries' - retries
              /\ retries = options.maxRetries =>
                    /\ pc' = "concluding"
                    /\ handlerPending' = <<>>
                    /\ Len(hist'.doneLog) = Len(hist.doneLog) + 1
      ]_vars

\* the run gave up on a batch that was delivered fewer than maxRetries + 1
\* times, because retries had been spent on an earlier, accepted batch
C14_Witness ==
    /\ retries = options.maxRetries
    /\ hist.accepts > 0
    /\ hist.doneLog # <<>>
    /\ hist.doneLog[1].status.error.kind = "skip"
    /\ hist.deliveries <= options.maxRetries

\* C16: once the run has recorded its start time, hasTimeLeft(start) is true
\* exactly while no more than maxRunTimeSeconds seconds have elapsed since
\* the start.
C16_BudgetInSeconds ==
    pc \in {"getCheckpoint", "streaming"} =>
        (hasTimeLeft(start, now) <=> now - start <= options.maxRunTimeSeconds * 1000)

\* C17: a done() call on a store that holds no document fails only if the
\* store itself fails; once it has completed, the store holds the document
\* { checkpointId: checkpoint, logs: [status] }.
C17_CreatedOnFirstWrite ==
    \A c \in Callers :
        /\ (~doc.defined /\ call[c].pc = "rejected") => call[c].err = StoreError
        /\ (~call[c].read.defined /\ call[c].pc = "resolved") =>
              /\ doc.checkpointId = call[c].checkpoint
              /\ doc.logs = <<Stamped(call[c].status, call[c].checkpoint)>>

\* C18: a run concluded as failed never resolves; it rejects with the
\* terminating error, which is the error of the newest persisted status,
\* when done succeeded, and with the error of done when done failed.
C18_FailedRunRejection ==
    onDone.kind = "failed" =>
        /\ settled # "resolved"
        /\ onDone.error = hist.doneLog[1].status.error
        /\ pc = "settled" =>
              /\ settled = "rejected"
              /\ call[1].pc \in {"resolved", "rejected"}
              /\ call[1].pc = "resolved" =>
                    /\ result.error = onDone.error
                    /\ doc.logs # <<>>
                    /\ Last(doc.logs).error = onDone.error
                    /\ doc.checkpointId = onDone.checkpoint
              /\ call[1].pc = "rejected" =>
                    /\ result.error = call[1].err
                    /\ result.error.kind \in {"store", "TypeError"}

\* a run that gave up on a batch rejects with the error of a failed write
C18_Witness ==
    /\ onDone.kind = "failed"
    /\ onDone.error.kind = "skip"
    /\ settled = "rejected"
    /\ call[1].pc = "rejected"
    /\ call[1].data.defined
    /\ result.error = StoreError

\* C19: when two done() calls have both read the document before either
\* wrote and both have completed, the store holds the document of the later
\* writer alone: its checkpointId, and one status more than the document
\* both read, the later writer's.
C19_LostUpdate ==
    (call[1].pc = "resolved" /\ call[2].pc = "resolved" /\ call[1].read = call[2].read) =>
        /\ hist.lastWriter \in Callers
        /\ LET w == hist.lastWriter
           IN  /\ doc = call[w].data
               /\ doc.checkpointId = call[w].checkpoint
               /\ Len(doc.logs) = Len(LogsOf(call[w].read)) + 1
               /\ Last(doc.logs) = Stamped(call[w].status, call[w].checkpoint)

\* both calls completed, and the status and checkpoint of the earlier writer
\* are gone from the document
C19_Witness ==
    /\ call[1].pc = "resolved" /\ call[2].pc = "resolved"
    /\ call[1].read = call[2].read
    /\ hist.lastWriter = 2
    /\ call[1].checkpoint # call[2].checkpoint
    /\ doc.checkpointId = call[2].checkpoint
    /\ \A i \in DOMAIN doc.logs : doc.logs[i] # call[1].status

HandlerCompleted == hist'.accepts > hist.accepts \/ hist'.handlerErrors > hist.handlerErrors

\* C15: when a handler invocation completes after the time budget has
\* expired, the run requests no page and does not invoke the handler: it
\* ends the stream or concludes.  A run is never concluded, and its stream
\* never touched, while a handler invocation is outstanding, and a run whose
\* budget has expired eventually settles.
C15_SelfTerminates ==
    /\ [][ /\ (Expired /\ HandlerCompleted) =>
                 /\ pendingNext' = <<>>
                 /\ handlerPending' = <<>>
                 /\ hist'.invocations = hist.invocations
                 /\ stream'.doneCalled \/ pc' \in {"concluding", "settled"}
           /\ (handlerPending # <<>> /\ ~HandlerCompleted) =>
                 /\ stream' = stream
                 /\ handlerPending' = handlerPending
                 /\ pc' = pc
         ]_vars
    /\ [](pc \in {"concluding", "settled"} => handlerPending = <<>>)
    /\ (Expired ~> settled # "pending")

\* the budget expired while the handler held a batch; the batch was
\* accepted, the stream ended without another page and the run resolved
C15_Witness ==
    /\ Expired
    /\ stream.doneCalled
    /\ stream.ended
    /\ settled = "resolved"
    /\ hist.accepts = 2
    /\ hist.accepted = hist.yielded

\* C20: every run eventually settles, resolved with its status and
\* checkpoint or rejected with an error; it settles once, the settlement
\* does not change afterwards, and done is invoked at most once.
C20_SettlesExactlyOnce ==
    /\ <>(settled # "pending")
    /\ [](/\ hist.settles <= 1
          /\ Len(hist.doneLog) <= 1
          /\ (settled # "pending" <=> hist.settles = 1)
          /\ settled = "resolved" =>
                result.error = NoError /\ result.checkpoint = stream.lastCheckpoint
          /\ settled = "rejected" => result.error # NoError)
    /\ [][settled # "pending" => (settled' = settled /\ result' = result)]_vars

\* a run with a redelivered batch has persisted its status once and resolved
C20_Witness ==
    /\ settled = "resolved"
    /\ hist.settles = 1
    /\ Len(hist.doneLog) = 1
    /\ retries > 0
    /\ result.status.logsProcessed > 0

====
